---- MODULE Spec2Model ----
(***************************************************************************)
(* Model of rio's project generator, src/rio/cli/project_setup.py.         *)
(*                                                                         *)
(* Text is modelled as a sequence of one-character strings, so that the    *)
(* character-level conversions of the source (case conversion, splitting,  *)
(* replacing) are computed and not assumed.  A snippet's file name is its  *)
(* stem's characters followed by the single token ".py".  A path is a      *)
(* sequence of names, a file's content a sequence of lines, a line a       *)
(* sequence of tokens.                                                     *)
(***************************************************************************)
EXTENDS Naturals, Sequences, FiniteSets, TLC

VARIABLES
    template,   \* the ProjectTemplate the catalog resolved (read-only input)
    type,       \* create_project's argument `type`: "app" or "website"
    fs,         \* the file system below the working directory: dirs, files
    pc,         \* per run: the statement of create_project it is about to execute
    err,        \* per run: the exception that ended it ("" while none)
    rawName,    \* per run: create_project's argument `raw_name`
    idx,        \* per run: position of the running `for snip in ...` loop
    log,        \* per run: history of the file system effects and checks it performed
    fsAtCall,   \* per run: history, the file system when create_project was called
    calls,      \* number of create_project calls made so far
    fnIn,       \* argument of a helper function called on its own
    fnOut       \* its result

vars == <<template, type, fs, pc, err, rawName, idx, log, fsAtCall, calls, fnIn, fnOut>>

(***************************************************************************)
(* Bounds of the model.                                                    *)
(***************************************************************************)
MaxRuns == 2        \* create_project calls in one behaviour
MaxSnips == 2       \* snippets per category of a template
MaxRawLen == 3      \* characters of a raw project name given to derive_module_name
MaxStemLen == 3     \* characters of a page snippet's stem given to generate_root_init
MaxPageList == 2    \* length of the page list given to generate_root_init

(***************************************************************************)
(* Characters and strings.                                                 *)
(***************************************************************************)
LowerLetters ==
    <<"a","b","c","d","e","f","g","h","i","j","k","l","m",
      "n","o","p","q","r","s","t","u","v","w","x","y","z">>

UpperLetters ==
    <<"A","B","C","D","E","F","G","H","I","J","K","L","M",
      "N","O","P","Q","R","S","T","U","V","W","X","Y","Z">>

Digits == {"0","1","2","3","4","5","6","7","8","9"}

IsLowerChar(c) == \E i \in 1..26 : LowerLetters[i] = c

IsUpperChar(c) == \E i \in 1..26 : UpperLetters[i] = c

\* str.lower() on one character
LowerChar(c) ==
    IF IsUpperChar(c)
    THEN LowerLetters[CHOOSE i \in 1..26 : UpperLetters[i] = c]
    ELSE c

\* str.upper() on one character
UpperChar(c) ==
    IF IsLowerChar(c)
    THEN UpperLetters[CHOOSE i \in 1..26 : LowerLetters[i] = c]
    ELSE c

\* str.lower()
Lower(s) == [i \in 1..Len(s) |-> LowerChar(s[i])]

\* str.capitalize(): first character upper-cased, the rest lower-cased
Capitalize(s) == [i \in 1..Len(s) |-> IF i = 1 THEN UpperChar(s[i]) ELSE LowerChar(s[i])]

\* str.replace(a, b) for single characters a, b
ReplaceChar(s, a, b) == [i \in 1..Len(s) |-> IF s[i] = a THEN b ELSE s[i]]

\* str.split(sep): the parts between the separators, empty parts included
RECURSIVE SplitFrom(_, _, _, _)
SplitFrom(s, sep, i, cur) ==
    IF i > Len(s) THEN <<cur>>
    ELSE IF s[i] = sep THEN <<cur>> \o SplitFrom(s, sep, i + 1, <<>>)
    ELSE SplitFrom(s, sep, i + 1, Append(cur, s[i]))

Split(s, sep) == SplitFrom(s, sep, 1, <<>>)

\* "".join(parts)
RECURSIVE Join(_)
Join(parts) == IF parts = <<>> THEN <<>> ELSE Head(parts) \o Join(Tail(parts))

\* all strings over `alphabet` of length lo..hi
StringsOver(alphabet, lo, hi) == UNION {[1..n -> alphabet] : n \in lo..hi}

(***************************************************************************)
(* Snippets.  A snippet object has an identity (`is` compares it), a file  *)
(* name and the set of sections its source text holds.                     *)
(***************************************************************************)
PY == ".py"

SnippetName(stem) == Append(stem, PY)

\* snip.name.endswith(".py")
EndsWithPy(name) == Len(name) > 0 /\ name[Len(name)] = PY

\* snip.name[:-3]
StemOf(name) == SubSeq(name, 1, Len(name) - 1)

\* class_name_from_snippet, had it capitalised the stem as a whole
ClassNameNoSplit(name) == Capitalize(StemOf(name))

\* class_name_from_snippet
ClassNameFromSnippet(name) ==
    LET parts == Split(StemOf(name), "_")
    IN  Join([i \in 1..Len(parts) |-> Capitalize(parts[i])])

\* write_init_file: one import line per snippet, in order
WriteInitFile(snippets) ==
    [i \in 1..Len(snippets) |->
        [module |-> StemOf(snippets[i].name),
         class  |-> ClassNameFromSnippet(snippets[i].name)]]

\* the URL segment, had the main page been recognised by its name and the segment
\* not been lower-cased
UrlSegmentByName(snip, main_page_snippet) ==
    IF snip.name = main_page_snippet.name THEN <<>>
    ELSE ReplaceChar(StemOf(snip.name), "_", "-")

\* generate_root_init, lines 70-74: the URL segment of one page
UrlSegment(snip, main_page_snippet) ==
    IF snip.id = main_page_snippet.id THEN <<>>
    ELSE Lower(ReplaceChar(StemOf(snip.name), "_", "-"))

\* generate_root_init, lines 66-84: the rio.Page entries of the app declaration
GenerateRootInitPages(pages, main_page_snippet) ==
    [i \in 1..Len(pages) |->
        [page_url |-> UrlSegment(pages[i], main_page_snippet),
         build    |-> ClassNameFromSnippet(pages[i].name)]]

(***************************************************************************)
(* derive_module_name and the directory name create_project derives.       *)
(***************************************************************************)
\* Characters that separate words in a raw name
WordSeparators == {" ", "-", "_"}

\* introspection.convert_case(raw_name, "snake"): the words of the name lower-cased
\* and joined by underscores.  A word ends at a separator and before an upper-case
\* letter that follows a lower-case letter or a digit; other characters stay.
ConvertCaseSnake(raw_name) ==
    Join([i \in 1..Len(raw_name) |->
        IF raw_name[i] \in WordSeparators THEN <<"_">>
        ELSE IF /\ IsUpperChar(raw_name[i])
                /\ i > 1
                /\ (IsLowerChar(raw_name[i-1]) \/ raw_name[i-1] \in Digits)
             THEN <<"_", LowerChar(raw_name[i])>>
        ELSE <<LowerChar(raw_name[i])>>])

\* c.isidentifier() for a single character
IsIdentifierChar(c) == IsLowerChar(c) \/ IsUpperChar(c) \/ c = "_"

\* c.isidentifier() or c in string.digits
IsModuleNameChar(c) == IsIdentifierChar(c) \/ c \in Digits

InvalidFilenameChars == {"<", ">", ":", "\"", "/", "\\", "|", "?", "*"}

IsValidFilenameChar(c) == c \notin InvalidFilenameChars

\* strip_invalid_filename_characters
StripInvalidFilenameCharacters(name) == SelectSeq(name, IsValidFilenameChar)

\* while name and name[0].isdigit(): name = name[1:]
RECURSIVE StripLeadingDigits(_)
StripLeadingDigits(name) ==
    IF name # <<>> /\ Head(name) \in Digits THEN StripLeadingDigits(Tail(name)) ELSE name

FallbackName == <<"r","i","o","_","a","p","p">>

\* derive_module_name without the loop that drops leading digits
DeriveModuleNameKeepDigits(raw_name) ==
    LET name == StripInvalidFilenameCharacters(
                    SelectSeq(ConvertCaseSnake(raw_name), IsModuleNameChar))
    IN  IF name = <<>> THEN FallbackName ELSE name

\* derive_module_name
DeriveModuleName(raw_name) ==
    LET converted == ConvertCaseSnake(raw_name)
        kept      == SelectSeq(converted, IsModuleNameChar)
        stripped  == StripInvalidFilenameCharacters(kept)
        name      == StripLeadingDigits(stripped)
    IN  IF name = <<>> THEN FallbackName ELSE name

\* create_project, line 286: module_name.replace("_", "-")
DashedName(module_name) == ReplaceChar(module_name, "_", "-")

(***************************************************************************)
(* The file system: the set of directories and the files with their        *)
(* content, each named by its path below the working directory.            *)
(***************************************************************************)
EmptyFs == [dirs |-> {}, files |-> <<>>]

Paths(f) == f.dirs \cup DOMAIN f.files

IsPrefix(d, p) == Len(d) <= Len(p) /\ SubSeq(p, 1, Len(d)) = d

\* Path.mkdir(exist_ok=True): create the directory unless it exists
Mkdir(f, d) == [f EXCEPT !.dirs = @ \cup {d}]

\* open(path, "w") ... write ... close: create or truncate, then hold `content`
WriteFile(f, p, content) ==
    [f EXCEPT !.files = [q \in DOMAIN f.files \cup {p} |->
                            IF q = p THEN content ELSE f.files[q]]]

\* the emptiness test, had it never found anything
DirNeverHasEntries(f, d) == FALSE

\* the emptiness test, had it taken an existing directory for a populated one
DirExists(f, d) == d \in f.dirs

\* any(project_dir.iterdir())
DirHasEntries(f, d) == \E p \in Paths(f) : Len(p) = Len(d) + 1 /\ IsPrefix(d, p)

(***************************************************************************)
(* What the generators write.                                              *)
(***************************************************************************)
\* create_project, lines 306-312: rio.toml
RioToml(project_type, module_name) ==
    << <<"[app]">>,
       <<"app_type", "=", project_type>>,
       <<"main_module", "=">> \o module_name >>

\* write_component_file, had it looked the "component" section up before writing
WriteComponentFileSectionFirst(snip) ==
    IF "component" \in snip.sections
    THEN [text |-> << <<"header">> >>
                   \o (IF "additional-imports" \in snip.sections
                       THEN << <<"additional-imports">> \o snip.name >> ELSE <<>>)
                   \o << <<"component">> \o snip.name >>,
          raised |-> ""]
    ELSE [text |-> <<>>, raised |-> "SectionNotFound"]

\* write_component_file, had it treated "component" as optional like the imports
WriteComponentFileSwallowKeyError(snip) ==
    [text |-> << <<"header">> >>
              \o (IF "additional-imports" \in snip.sections
                  THEN << <<"additional-imports">> \o snip.name >> ELSE <<>>)
              \o (IF "component" \in snip.sections
                  THEN << <<"component">> \o snip.name >> ELSE <<>>),
     raised |-> ""]

\* write_component_file: the text written to the open file, and the exception raised.
\* The header and the additional imports are written before the "component"
\* section is looked up (lines 230-253); get_section raises KeyError for a section
\* the snippet does not have (lines 244-247 catch it for the optional one).
WriteComponentFile(snip) ==
    LET header  == << <<"header">> >>
        imports == IF "additional-imports" \in snip.sections
                   THEN << <<"additional-imports">> \o snip.name >>
                   ELSE <<>>
    IN  IF "component" \in snip.sections
        THEN [text |-> header \o imports \o << <<"component">> \o snip.name >>,
              raised |-> ""]
        ELSE [text |-> header \o imports, raised |-> "SectionNotFound"]

\* generate_root_init: the file's text
RootInitText(raw_name, pages, main_page_snippet) ==
    LET entries == GenerateRootInitPages(pages, main_page_snippet)
    IN  << <<"imports">>, <<"name=">> \o raw_name >>
        \o Join([i \in 1..Len(entries) |->
                << <<"rio.Page">>,
                   <<"page_url=">> \o entries[i].page_url,
                   <<"build=pages.">> \o entries[i].build >>])

\* write_init_file: the file's text
InitFileText(snippets) ==
    LET lines == WriteInitFile(snippets)
    IN  [i \in 1..Len(lines) |->
            <<"from", ".">> \o lines[i].module \o <<"import">> \o lines[i].class]

\* generate_dependencies_file without its early return
WritesDependenciesAlways(dependencies) == TRUE

\* generate_dependencies_file: whether requirements.txt is written, and its text
WritesDependencies(dependencies) == dependencies # <<>>

DependenciesText(dependencies) ==
    [i \in 1..Len(dependencies) |-> <<dependencies[i].package, dependencies[i].version>>]

\* generate_readme
ReadmeText(raw_name, tmpl) ==
    << <<"#">> \o raw_name >>
    \o (IF tmpl.name # "Empty" THEN << <<"##", tmpl.name>> >> ELSE <<>>)

\* create_project, lines 390-406: __main__.py is written for applications only
WritesMain(project_type) == project_type = "app"

MainText(module_name) ==
    << <<"import">> \o module_name, module_name \o <<".app.run_in_window()">> >>

\* the page-count test, had it been left out
TooManyPagesNever(pages) == FALSE

\* create_project, line 356: more than one page is not supported
TooManyPages(pages) == Len(pages) > 1

(***************************************************************************)
(* The inputs: templates as the catalog resolves them, raw project names,  *)
(* and what the working directory may hold before the first call.          *)
(***************************************************************************)
ComponentPool ==
    { [id |-> 1, name |-> SnippetName(<<"n","a","v","_","b","a","r">>),
       sections |-> {"component", "additional-imports"}],
      [id |-> 3, name |-> SnippetName(<<"b","a","d">>),
       sections |-> {"additional-imports"}] }

PagePool ==
    { [id |-> 4, name |-> SnippetName(<<"s","a","m","p","l","e","_","p","a","g","e">>),
       sections |-> {"component"}],
      [id |-> 5, name |-> SnippetName(<<"a","b","o","u","t">>),
       sections |-> {"component", "additional-imports"}],
      [id |-> 6, name |-> SnippetName(<<"d","r","a","f","t">>),
       sections |-> {}] }

OtherPool ==
    { [id |-> 7, name |-> SnippetName(<<"u","t","i","l","s">>), sections |-> {}] }

AssetPool == { <<"logo.png">> }

DependencyChoices == { <<>>, << [package |-> "numpy", version |-> ">=1.0"] >> }

\* the sequences of at most n different elements of a pool, at least lo of them
ListsOf(pool, lo, n) ==
    { l \in UNION {[1..k -> pool] : k \in lo..n} :
        \A i, j \in 1..Len(l) : i # j => l[i] # l[j] }

Templates ==
    [ name               : {"Empty"},
      asset_snippets     : ListsOf(AssetPool, 0, 1),
      component_snippets : ListsOf(ComponentPool, 0, MaxSnips),
      page_snippets      : ListsOf(PagePool, 1, MaxSnips),
      other_python_files : ListsOf(OtherPool, 0, 1),
      dependencies       : DependencyChoices ]

RawNames == { <<"M","y"," ","A","p","p">>, <<"9","x">> }

\* the project directory of "My App", and a file someone left in it
MyAppDir == << DashedName(DeriveModuleName(<<"M","y"," ","A","p","p">>)) >>

InitialFileSystems ==
    { EmptyFs,
      Mkdir(EmptyFs, MyAppDir),
      WriteFile(Mkdir(EmptyFs, MyAppDir), Append(MyAppDir, <<"notes.txt">>),
                << <<"kept">> >>) }

Runs == {1, 2}

NoCall == [kind |-> "none"]

(***************************************************************************)
(* create_project: the names a run derives from its arguments.             *)
(***************************************************************************)
module_name(r) == DeriveModuleName(rawName[r])

dashed_name(r) == DashedName(module_name(r))

project_dir(r) == << dashed_name(r) >>

main_module_dir(r) == << dashed_name(r), module_name(r) >>

assets_dir(r) == Append(main_module_dir(r), <<"assets">>)

components_dir(r) == Append(main_module_dir(r), <<"components">>)

pages_dir(r) == Append(main_module_dir(r), <<"pages">>)

InitPy == <<"__init__", PY>>

(***************************************************************************)
(* create_project: the order of its statements.  A `for` loop over an      *)
(* empty list executes nothing.                                            *)
(***************************************************************************)
\* the order, had the page count been checked right after the emptiness check
StageOrderValidateFirst ==
    << "mkroot", "check", "mainpage", "toml", "mkmod", "mkassets", "mkcomps", "mkpages",
       "assets", "components", "pages", "others", "rootinit",
       "compsinit", "pagesinit", "deps", "readme", "main", "done" >>

\* the order of create_project's statements, lines 297-406
StageOrder ==
    << "mkroot", "check", "toml", "mkmod", "mkassets", "mkcomps", "mkpages",
       "assets", "components", "pages", "others", "mainpage", "rootinit",
       "compsinit", "pagesinit", "deps", "readme", "main", "done" >>

StageIndex(stage) == CHOOSE i \in 1..Len(StageOrder) : StageOrder[i] = stage

StageItems(stage) ==
    CASE stage = "assets"     -> template.asset_snippets
      [] stage = "components" -> template.component_snippets
      [] stage = "pages"      -> template.page_snippets
      [] stage = "others"     -> template.other_python_files
      [] OTHER                -> <<"statement">>

RECURSIVE Enter(_)
Enter(i) == IF StageItems(StageOrder[i]) = <<>> THEN Enter(i + 1) ELSE StageOrder[i]

After(stage) == Enter(StageIndex(stage) + 1)

(***************************************************************************)
(* create_project, one action per statement.  `log` records each effect on *)
(* the file system and each check, in the order the run performed them.    *)
(***************************************************************************)
Proceed(r, stage) ==
    /\ pc' = [pc EXCEPT ![r] = After(stage)]
    /\ idx' = [idx EXCEPT ![r] = 1]
    /\ err' = err

\* the next iteration of the `for` loop, or the statement after it
LoopNext(r, stage) ==
    IF idx[r] < Len(StageItems(stage))
    THEN pc' = pc /\ idx' = [idx EXCEPT ![r] = @ + 1] /\ err' = err
    ELSE Proceed(r, stage)

\* an exception leaves create_project: the run is over
Raise(r, exception) ==
    /\ pc' = [pc EXCEPT ![r] = "failed"]
    /\ err' = [err EXCEPT ![r] = exception]
    /\ idx' = idx

Record(r, op, stage) ==
    log' = [log EXCEPT ![r] = Append(@, [op |-> op, stage |-> stage])]

Inputs == <<template, type, rawName, fsAtCall, calls, fnIn, fnOut>>

\* a call of create_project(raw_name=..., type=..., template_name=...)
Call(r) ==
    /\ pc[r] \in {"idle", "done", "failed"}
    /\ calls < MaxRuns
    /\ \E raw_name \in RawNames : rawName' = [rawName EXCEPT ![r] = raw_name]
    /\ calls' = calls + 1
    /\ pc' = [pc EXCEPT ![r] = Enter(1)]
    /\ idx' = [idx EXCEPT ![r] = 1]
    /\ err' = [err EXCEPT ![r] = ""]
    /\ log' = [log EXCEPT ![r] = <<>>]
    /\ fsAtCall' = [fsAtCall EXCEPT ![r] = fs]
    /\ UNCHANGED <<template, type, fs, fnIn, fnOut>>

\* line 299: project_dir.mkdir(parents=True, exist_ok=True)
MkRoot(r) ==
    /\ pc[r] = "mkroot"
    /\ fs' = Mkdir(fs, project_dir(r))
    /\ IF project_dir(r) \in fs.dirs THEN log' = log ELSE Record(r, "mkdir", "mkroot")
    /\ Proceed(r, "mkroot")
    /\ UNCHANGED Inputs

\* lines 302-303: fatal(...) if the project directory holds anything
CheckEmpty(r) ==
    /\ pc[r] = "check"
    /\ Record(r, "check", "check")
    /\ IF DirHasEntries(fs, project_dir(r))
       THEN Raise(r, "DirectoryNotEmpty")
       ELSE Proceed(r, "check")
    /\ UNCHANGED fs
    /\ UNCHANGED Inputs

\* lines 306-312
WriteToml(r) ==
    /\ pc[r] = "toml"
    /\ fs' = WriteFile(fs, Append(project_dir(r), <<"rio.toml">>),
                       RioToml(type, module_name(r)))
    /\ Record(r, "write", "toml")
    /\ Proceed(r, "toml")
    /\ UNCHANGED Inputs

\* line 320: main_module_dir.mkdir(parents=True, exist_ok=True)
MkModuleDir(r) ==
    /\ pc[r] = "mkmod"
    /\ fs' = Mkdir(Mkdir(fs, project_dir(r)), main_module_dir(r))
    /\ IF main_module_dir(r) \in fs.dirs THEN log' = log ELSE Record(r, "mkdir", "mkmod")
    /\ Proceed(r, "mkmod")
    /\ UNCHANGED Inputs

\* Path.mkdir(): FileExistsError if the directory exists
MkdirStrict(r, stage, d) ==
    /\ pc[r] = stage
    /\ IF d \in fs.dirs
       THEN fs' = fs /\ log' = log /\ Raise(r, "FileExistsError")
       ELSE fs' = Mkdir(fs, d) /\ Record(r, "mkdir", stage) /\ Proceed(r, stage)
    /\ UNCHANGED Inputs

\* line 321
MkAssetsDir(r) == MkdirStrict(r, "mkassets", assets_dir(r))

\* line 322
MkComponentsDir(r) == MkdirStrict(r, "mkcomps", components_dir(r))

\* line 323
MkPagesDir(r) == MkdirStrict(r, "mkpages", pages_dir(r))

\* lines 326-329: shutil.copyfile of one asset
CopyAsset(r) ==
    /\ pc[r] = "assets"
    /\ LET snip == template.asset_snippets[idx[r]]
       IN  fs' = WriteFile(fs, Append(assets_dir(r), snip), << <<"bytes">> \o snip >>)
    /\ Record(r, "write", "assets")
    /\ LoopNext(r, "assets")
    /\ UNCHANGED Inputs

\* lines 335-336 and 342-343: with target_path.open("w") as f: write_component_file(f, snip).
\* The file is created when it is opened; what was written is flushed when the
\* `with` block is left, by an exception too.
WriteSnippetFile(r, stage, dir) ==
    /\ pc[r] = stage
    /\ LET snip == StageItems(stage)[idx[r]]
           res  == WriteComponentFile(snip)
       IN  /\ fs' = WriteFile(fs, Append(dir, snip.name), res.text)
           /\ IF res.raised # "" THEN Raise(r, res.raised) ELSE LoopNext(r, stage)
    /\ Record(r, "write", stage)
    /\ UNCHANGED Inputs

\* lines 332-336
WriteComponent(r) == WriteSnippetFile(r, "components", components_dir(r))

\* lines 339-343
WritePage(r) == WriteSnippetFile(r, "pages", pages_dir(r))

\* lines 346-351
WriteOther(r) ==
    /\ pc[r] = "others"
    /\ LET snip == template.other_python_files[idx[r]]
       IN  fs' = WriteFile(fs, Append(main_module_dir(r), snip.name),
                           << <<"stripped_code">> \o snip.name >>)
    /\ Record(r, "write", "others")
    /\ LoopNext(r, "others")
    /\ UNCHANGED Inputs

\* lines 356-359
FindMainPage(r) ==
    /\ pc[r] = "mainpage"
    /\ Record(r, "check", "mainpage")
    /\ IF TooManyPages(template.page_snippets)
       THEN Raise(r, "UnsupportedConfiguration")
       ELSE Proceed(r, "mainpage")
    /\ UNCHANGED fs
    /\ UNCHANGED Inputs

\* lines 359-372
WriteRootInit(r) ==
    /\ pc[r] = "rootinit"
    /\ LET main_page_snippet == template.page_snippets[1]
       IN  fs' = WriteFile(fs, Append(main_module_dir(r), InitPy),
                           RootInitText(rawName[r], template.page_snippets,
                                        main_page_snippet))
    /\ Record(r, "write", "rootinit")
    /\ Proceed(r, "rootinit")
    /\ UNCHANGED Inputs

\* lines 375-376
WriteComponentsInit(r) ==
    /\ pc[r] = "compsinit"
    /\ fs' = WriteFile(fs, Append(components_dir(r), InitPy),
                       InitFileText(template.component_snippets))
    /\ Record(r, "write", "compsinit")
    /\ Proceed(r, "compsinit")
    /\ UNCHANGED Inputs

\* lines 379-380
WritePagesInit(r) ==
    /\ pc[r] = "pagesinit"
    /\ fs' = WriteFile(fs, Append(pages_dir(r), InitPy),
                       InitFileText(template.page_snippets))
    /\ Record(r, "write", "pagesinit")
    /\ Proceed(r, "pagesinit")
    /\ UNCHANGED Inputs

\* line 383 and generate_dependencies_file
WriteDependencies(r) ==
    /\ pc[r] = "deps"
    /\ IF WritesDependencies(template.dependencies)
       THEN /\ fs' = WriteFile(fs, Append(project_dir(r), <<"requirements.txt">>),
                               DependenciesText(template.dependencies))
            /\ Record(r, "write", "deps")
       ELSE fs' = fs /\ log' = log
    /\ Proceed(r, "deps")
    /\ UNCHANGED Inputs

\* lines 386-387
WriteReadme(r) ==
    /\ pc[r] = "readme"
    /\ fs' = WriteFile(fs, Append(project_dir(r), <<"README.md">>),
                       ReadmeText(rawName[r], template))
    /\ Record(r, "write", "readme")
    /\ Proceed(r, "readme")
    /\ UNCHANGED Inputs

\* lines 390-406
WriteMain(r) ==
    /\ pc[r] = "main"
    /\ IF WritesMain(type)
       THEN /\ fs' = WriteFile(fs, Append(main_module_dir(r), <<"__main__", PY>>),
                               MainText(module_name(r)))
            /\ Record(r, "write", "main")
       ELSE fs' = fs /\ log' = log
    /\ Proceed(r, "main")
    /\ UNCHANGED Inputs

Step(r) ==
    \/ Call(r)
    \/ MkRoot(r)
    \/ CheckEmpty(r)
    \/ WriteToml(r)
    \/ MkModuleDir(r)
    \/ MkAssetsDir(r)
    \/ MkComponentsDir(r)
    \/ MkPagesDir(r)
    \/ CopyAsset(r)
    \/ WriteComponent(r)
    \/ WritePage(r)
    \/ WriteOther(r)
    \/ FindMainPage(r)
    \/ WriteRootInit(r)
    \/ WriteComponentsInit(r)
    \/ WritePagesInit(r)
    \/ WriteDependencies(r)
    \/ WriteReadme(r)
    \/ WriteMain(r)

(***************************************************************************)
(* Spec: create_project called up to MaxRuns times, one call after the     *)
(* other, in a working directory that may already hold the project         *)
(* directory.                                                              *)
(***************************************************************************)
Init ==
    /\ template \in Templates
    /\ type \in {"app", "website"}
    /\ fs \in InitialFileSystems
    /\ pc = [r \in Runs |-> "idle"]
    /\ err = [r \in Runs |-> ""]
    /\ rawName = [r \in Runs |-> <<>>]
    /\ idx = [r \in Runs |-> 1]
    /\ log = [r \in Runs |-> <<>>]
    /\ fsAtCall = [r \in Runs |-> EmptyFs]
    /\ calls = 0
    /\ fnIn = NoCall
    /\ fnOut = NoCall

Next == Step(1)

Spec == Init /\ [][Next]_vars

(***************************************************************************)
(* SpecRace: two create_project calls whose statements interleave, as two  *)
(* processes started in the same working directory do.                     *)
(***************************************************************************)
RaceTemplates ==
    { t \in Templates :
        /\ t.asset_snippets # <<>>
        /\ t.other_python_files # <<>>
        /\ t.dependencies # <<>>
        /\ Len(t.component_snippets) = 1
        /\ Len(t.page_snippets) = 1 }

InitRace ==
    /\ template \in RaceTemplates
    /\ type = "app"
    /\ fs = EmptyFs
    /\ pc = [r \in Runs |-> "idle"]
    /\ err = [r \in Runs |-> ""]
    /\ rawName = [r \in Runs |-> <<>>]
    /\ idx = [r \in Runs |-> 1]
    /\ log = [r \in Runs |-> <<>>]
    /\ fsAtCall = [r \in Runs |-> EmptyFs]
    /\ calls = 0
    /\ fnIn = NoCall
    /\ fnOut = NoCall

NextRace == \E r \in Runs : Step(r)

SpecRace == InitRace /\ [][NextRace]_vars

(***************************************************************************)
(* SpecFn: the pure helpers called on their own, on every input within the *)
(* bounds.                                                                 *)
(***************************************************************************)
RawAlphabet == {"a", "B", "1", "2", "3", "_", " ", "!"}

StemAlphabet == {"a", "B", "_"}

DeriveCalls ==
    [ kind : {"derive_module_name"}, raw_name : StringsOver(RawAlphabet, 0, MaxRawLen) ]

\* two snippet objects; their names may be equal
FirstPageObjects ==
    { [id |-> 1, name |-> SnippetName(stem), sections |-> {"component"}] :
        stem \in StringsOver(StemAlphabet, 1, MaxStemLen) }

SecondPageObjects ==
    { [id |-> 2, name |-> SnippetName(stem), sections |-> {"component"}] :
        stem \in StringsOver(StemAlphabet, 1, MaxStemLen - 2) }

\* the calls of generate_root_init with a page list over two objects, an object
\* possibly more than once, and one page of the list designated the main page
IsRootInitCall(c) ==
    \E a \in FirstPageObjects, b \in SecondPageObjects :
        \E l \in StringsOver({a, b}, 1, MaxPageList) :
            \E m \in 1..Len(l) :
                c = [kind |-> "generate_root_init", pages |-> l, main_page_snippet |-> l[m]]

\* create_project, lines 283-286
CallDeriveModuleName ==
    /\ fnIn.kind = "derive_module_name"
    /\ fnOut = NoCall
    /\ LET name == DeriveModuleName(fnIn.raw_name)
       IN  fnOut' = [kind |-> "derive_module_name",
                     module_name |-> name,
                     dashed_name |-> DashedName(name)]
    /\ UNCHANGED <<template, type, fs, pc, err, rawName, idx, log, fsAtCall, calls, fnIn>>

\* create_project, lines 363-380: the root __init__.py and pages/__init__.py
\* generated from one page list
CallGenerateRootInit ==
    /\ fnIn.kind = "generate_root_init"
    /\ fnOut = NoCall
    /\ Len(fnIn.pages) > 0
    /\ fnOut' = [kind |-> "generate_root_init",
                 entries |-> GenerateRootInitPages(fnIn.pages, fnIn.main_page_snippet),
                 pages_init |-> WriteInitFile(fnIn.pages)]
    /\ UNCHANGED <<template, type, fs, pc, err, rawName, idx, log, fsAtCall, calls, fnIn>>

InitFn ==
    /\ (fnIn \in DeriveCalls \/ IsRootInitCall(fnIn))
    /\ fnOut = NoCall
    /\ template = CHOOSE t \in Templates : TRUE
    /\ type = "app"
    /\ fs = EmptyFs
    /\ pc = [r \in Runs |-> "idle"]
    /\ err = [r \in Runs |-> ""]
    /\ rawName = [r \in Runs |-> <<>>]
    /\ idx = [r \in Runs |-> 1]
    /\ log = [r \in Runs |-> <<>>]
    /\ fsAtCall = [r \in Runs |-> EmptyFs]
    /\ calls = 0

NextFn == CallDeriveModuleName \/ CallGenerateRootInit

SpecFn == InitFn /\ [][NextFn]_vars

(***************************************************************************)
(* Vocabulary of the properties.                                           *)
(***************************************************************************)
Started(r) == pc[r] # "idle"

\* the directory holds something: a path strictly below it exists
HeldEntries(f, d) == \E p \in Paths(f) : Len(p) > Len(d) /\ IsPrefix(d, p)

\* everything at or below the directory
Below(f, d) == { p \in Paths(f) : IsPrefix(d, p) }

HasLogged(r, op, stage) ==
    \E i \in 1..Len(log[r]) : log[r][i].op = op /\ log[r][i].stage = stage

PositionIn(order, stage) == CHOOSE i \in 1..Len(order) : order[i] = stage

\* the run's effects and checks happened in the given order of statements
LogFollows(r, order) ==
    \A i, j \in 1..Len(log[r]) :
        i < j => PositionIn(order, log[r][i].stage) <= PositionIn(order, log[r][j].stage)

TomlPath(r) == Append(project_dir(r), <<"rio.toml">>)
ReadmePath(r) == Append(project_dir(r), <<"README.md">>)
RequirementsPath(r) == Append(project_dir(r), <<"requirements.txt">>)
RootInitPath(r) == Append(main_module_dir(r), <<"__init__", ".py">>)
MainPath(r) == Append(main_module_dir(r), <<"__main__", ".py">>)
ComponentsInitPath(r) == Append(components_dir(r), <<"__init__", ".py">>)
PagesInitPath(r) == Append(pages_dir(r), <<"__init__", ".py">>)

AssetPaths(r) ==
    { Append(assets_dir(r), template.asset_snippets[i]) :
        i \in 1..Len(template.asset_snippets) }

ComponentPaths(r) ==
    { Append(components_dir(r), template.component_snippets[i].name) :
        i \in 1..Len(template.component_snippets) }

PagePaths(r) ==
    { Append(pages_dir(r), template.page_snippets[i].name) :
        i \in 1..Len(template.page_snippets) }

OtherPaths(r) ==
    { Append(main_module_dir(r), template.other_python_files[i].name) :
        i \in 1..Len(template.other_python_files) }

ModuleDirs(r) == { main_module_dir(r), assets_dir(r), components_dir(r), pages_dir(r) }

\* the files create_project writes after the page-count check
RootFilePaths(r) ==
    { RootInitPath(r), ComponentsInitPath(r), PagesInitPath(r),
      RequirementsPath(r), ReadmePath(r), MainPath(r) }

RootStages == {"rootinit", "compsinit", "pagesinit", "deps", "readme", "main"}

\* a complete component or page file: header, additional imports if any, component
CompleteText(snip) ==
    << <<"header">> >>
    \o (IF "additional-imports" \in snip.sections
        THEN << <<"additional-imports">> \o snip.name >> ELSE <<>>)
    \o << <<"component">> \o snip.name >>

\* a component or page file cut off before the component: header, imports if any
HeaderOnlyText(snip) ==
    << <<"header">> >>
    \o (IF "additional-imports" \in snip.sections
        THEN << <<"additional-imports">> \o snip.name >> ELSE <<>>)

Snippets(stage) ==
    IF stage = "components" THEN template.component_snippets ELSE template.page_snippets

SnippetDir(r, stage) == IF stage = "components" THEN components_dir(r) ELSE pages_dir(r)

LacksComponent(stage, k) == "component" \notin Snippets(stage)[k].sections

\* the first snippet, in write order, without a "component" section
HasBad(stage) == \E k \in 1..Len(Snippets(stage)) : LacksComponent(stage, k)

BadStage ==
    IF HasBad("components") THEN "components"
    ELSE IF HasBad("pages") THEN "pages" ELSE "none"

BadIndex ==
    CHOOSE k \in 1..Len(Snippets(BadStage)) :
        /\ LacksComponent(BadStage, k)
        /\ \A j \in 1..(k - 1) : ~LacksComponent(BadStage, j)

BadPath(r) == Append(SnippetDir(r, BadStage), Snippets(BadStage)[BadIndex].name)

(***************************************************************************)
(* C1.  A call of create_project whose project directory already holds an  *)
(* entry fails with DirectoryNotEmpty, writes no file and creates no       *)
(* directory, and leaves the file system exactly as it found it; so does   *)
(* every further call against that directory.                              *)
(***************************************************************************)
C1_NonEmptyDirectoryUntouched ==
    \A r \in Runs :
        (Started(r) /\ HeldEntries(fsAtCall[r], project_dir(r))) =>
            /\ fs = fsAtCall[r]
            /\ pc[r] \in {"mkroot", "check", "failed"}
            /\ \A i \in 1..Len(log[r]) : log[r][i].op = "check"
            /\ (pc[r] = "failed" => err[r] = "DirectoryNotEmpty")

\* the second call failed on the directory the first call populated
C1_Witness ==
    /\ calls = 2
    /\ pc[1] = "failed"
    /\ err[1] = "DirectoryNotEmpty"
    /\ RootInitPath(1) \in DOMAIN fsAtCall[1].files
    /\ fs = fsAtCall[1]

(***************************************************************************)
(* C2 as stated.  A run that fails with UnsupportedConfiguration has       *)
(* created no directory below the project directory and written no file.   *)
(***************************************************************************)
C2_UnsupportedBeforeAnyDirectory ==
    \A r \in Runs :
        err[r] = "UnsupportedConfiguration" =>
            /\ ModuleDirs(r) \cap fs.dirs = {}
            /\ ~HeldEntries(fs, project_dir(r))

(***************************************************************************)
(* C2 amended.  With more than one page in the template, create_project    *)
(* never writes the root package init, a barrel file, the dependency       *)
(* manifest, the readme or the entry point.  It fails with                 *)
(* UnsupportedConfiguration only after rio.toml, the module, assets,       *)
(* components and pages directories and every asset, component, page and   *)
(* other file have been written, and all of these are left on disk.        *)
(***************************************************************************)
C2_UnsupportedAfterSnippetFiles ==
    \A r \in Runs :
        /\ (Started(r) /\ Len(template.page_snippets) > 1) =>
              /\ pc[r] \notin RootStages \cup {"done"}
              /\ \A i \in 1..Len(log[r]) : log[r][i].stage \notin RootStages
              /\ (RootFilePaths(r) \ DOMAIN fsAtCall[r].files) \cap DOMAIN fs.files = {}
        /\ err[r] = "UnsupportedConfiguration" =>
              /\ Len(template.page_snippets) > 1
              /\ pc[r] = "failed"
              /\ log[r][Len(log[r])] = [op |-> "check", stage |-> "mainpage"]
              /\ ModuleDirs(r) \subseteq fs.dirs
              /\ {TomlPath(r)} \cup AssetPaths(r) \cup ComponentPaths(r)
                    \cup PagePaths(r) \cup OtherPaths(r) \subseteq DOMAIN fs.files

C2_Witness ==
    /\ err[1] = "UnsupportedConfiguration"
    /\ Len(template.page_snippets) = 2
    /\ template.component_snippets # <<>>
    /\ PagePaths(1) \subseteq DOMAIN fs.files

(***************************************************************************)
(* C3.  When a component or page snippet has no "component" section, the   *)
(* run fails with SectionNotFound at the first such snippet and ends       *)
(* there: nothing later in the write order is written, and every file      *)
(* written before it stays on disk, complete.                              *)
(***************************************************************************)
C3_SectionNotFoundStopsTheRun ==
    \A r \in Runs :
        /\ (Started(r) /\ BadStage # "none" /\ err[r] \in {"", "SectionNotFound"}) =>
              \* the run never gets past the snippet
              /\ IF pc[r] = "failed" THEN err[r] = "SectionNotFound"
                 ELSE PositionIn(StageOrder, pc[r]) <= PositionIn(StageOrder, BadStage)
              /\ (pc[r] = BadStage => idx[r] <= BadIndex)
        /\ err[r] = "SectionNotFound" =>
              /\ BadStage # "none"
              /\ pc[r] = "failed"
              /\ log[r][Len(log[r])] = [op |-> "write", stage |-> BadStage]
              \* what was written before is on disk, complete
              /\ TomlPath(r) \in DOMAIN fs.files
              /\ AssetPaths(r) \subseteq DOMAIN fs.files
              /\ \A k \in 1..(BadIndex - 1) :
                    LET snip == Snippets(BadStage)[k]
                        path == Append(SnippetDir(r, BadStage), snip.name)
                    IN  path \in DOMAIN fs.files /\ fs.files[path] = CompleteText(snip)
              /\ (BadStage = "pages" =>
                    \A k \in 1..Len(template.component_snippets) :
                        LET snip == template.component_snippets[k]
                            path == Append(components_dir(r), snip.name)
                        IN  path \in DOMAIN fs.files /\ fs.files[path] = CompleteText(snip))
              \* nothing later in the write order is on disk
              /\ \A k \in (BadIndex + 1)..Len(Snippets(BadStage)) :
                    Append(SnippetDir(r, BadStage), Snippets(BadStage)[k].name)
                        \notin DOMAIN fs.files
              /\ (BadStage = "components" => PagePaths(r) \cap DOMAIN fs.files = {})
              /\ (OtherPaths(r) \cup RootFilePaths(r)) \cap DOMAIN fs.files = {}

\* the second component has no "component" section; the first was written
C3_Witness ==
    /\ err[1] = "SectionNotFound"
    /\ BadStage = "components"
    /\ BadIndex = 2
    /\ Len(template.page_snippets) = 2
    /\ template.asset_snippets # <<>>

(***************************************************************************)
(* C9 as stated.  After a SectionNotFound failure the file of the failing  *)
(* snippet does not exist or holds nothing.                                *)
(***************************************************************************)
C9_NoPartialFile ==
    \A r \in Runs :
        err[r] = "SectionNotFound" =>
            \/ BadPath(r) \notin DOMAIN fs.files
            \/ fs.files[BadPath(r)] = <<>>

(***************************************************************************)
(* C9 amended.  After a SectionNotFound failure the file of the failing    *)
(* snippet is on disk half-written: it holds the import header, then the   *)
(* snippet's additional imports if it has any, and no component.           *)
(***************************************************************************)
C9_HeaderOnlyFileLeft ==
    \A r \in Runs :
        err[r] = "SectionNotFound" =>
            /\ BadPath(r) \in DOMAIN fs.files
            /\ fs.files[BadPath(r)] = HeaderOnlyText(Snippets(BadStage)[BadIndex])
            /\ fs.files[BadPath(r)][1] = <<"header">>
            /\ \A i \in 1..Len(fs.files[BadPath(r)]) :
                    fs.files[BadPath(r)][i][1] # "component"

\* a page without sections failed: its file holds the import header alone
C9_Witness ==
    /\ err[1] = "SectionNotFound"
    /\ BadStage = "pages"
    /\ fs.files[BadPath(1)] = << <<"header">> >>

(***************************************************************************)
(* C4 as stated.  Both validations (the emptiness check, for which the     *)
(* project directory itself is made, and the page-count check) come before *)
(* any directory of the project is created, all directories before any     *)
(* file, and the files in the order assets, components, pages, other       *)
(* files, root init, components barrel, pages barrel, dependency manifest, *)
(* readme, entry point.                                                    *)
(***************************************************************************)
OrderAsStated ==
    << "mkroot", "check", "mainpage",
       "mkmod", "mkassets", "mkcomps", "mkpages",
       "toml", "assets", "components", "pages", "others", "rootinit",
       "compsinit", "pagesinit", "deps", "readme", "main" >>

C4_ValidateThenDirectoriesThenFiles ==
    \A r \in Runs : LogFollows(r, OrderAsStated)

(***************************************************************************)
(* C4 amended.  Every run goes, never backwards, through: make the project *)
(* directory, emptiness check, write rio.toml, make the module, assets,    *)
(* components and pages directories, copy the assets, write the component  *)
(* files, the page files, the other files, page-count check, write the     *)
(* root init, the components barrel, the pages barrel, the dependency      *)
(* manifest, the readme, the entry point.  Only the emptiness check comes  *)
(* before every write: rio.toml is written before the module directories   *)
(* exist, and the page count is checked after the snippet files are        *)
(* written.                                                                *)
(***************************************************************************)
OrderOfTheCode ==
    << "mkroot", "check", "toml",
       "mkmod", "mkassets", "mkcomps", "mkpages",
       "assets", "components", "pages", "others", "mainpage", "rootinit",
       "compsinit", "pagesinit", "deps", "readme", "main", "done" >>

C4_OrderOfStatements ==
    \A r \in Runs :
        /\ LogFollows(r, OrderOfTheCode)
        \* one directory, one check and one file per statement outside the loops
        /\ \A i, j \in 1..Len(log[r]) :
              (i < j /\ log[r][i].stage = log[r][j].stage) =>
                  log[r][i].stage \in {"assets", "components", "pages", "others"}
        \* the statement about to run comes after everything done so far
        /\ (Started(r) /\ pc[r] # "failed") =>
              \A i \in 1..Len(log[r]) :
                  PositionIn(OrderOfTheCode, log[r][i].stage)
                      <= PositionIn(OrderOfTheCode, pc[r])
        \* a finished run performed every unconditional statement
        /\ pc[r] = "done" =>
              \A st \in {"check", "toml", "mkmod", "mkassets", "mkcomps", "mkpages",
                         "mainpage", "rootinit", "compsinit", "pagesinit", "readme"} :
                  \E i \in 1..Len(log[r]) : log[r][i].stage = st

\* a finished run that wrote a file of every kind
C4_Witness ==
    /\ pc[1] = "done"
    /\ \A st \in {"mkroot", "assets", "components", "pages", "others", "deps", "main"} :
          \E i \in 1..Len(log[1]) : log[1][i].stage = st

(***************************************************************************)
(* C5 as stated.  A run that reaches the end leaves exactly the layout of  *)
(* the project: rio.toml, README.md, the module directory with its         *)
(* __init__.py, the assets, components and pages directories, both barrel  *)
(* files, one file per asset, component and page snippet, requirements.txt *)
(* exactly when the template has dependencies and __main__.py exactly when *)
(* the project type is "app"; and nothing else.                            *)
(***************************************************************************)
StatedLayoutFiles(r) ==
    { TomlPath(r), ReadmePath(r), RootInitPath(r), ComponentsInitPath(r), PagesInitPath(r) }
    \cup AssetPaths(r) \cup ComponentPaths(r) \cup PagePaths(r)
    \cup (IF template.dependencies # <<>> THEN {RequirementsPath(r)} ELSE {})
    \cup (IF type = "app" THEN {MainPath(r)} ELSE {})

C5_ExactlyTheStatedLayout ==
    \A r \in Runs :
        pc[r] = "done" =>
            Below(fs, project_dir(r))
                = {project_dir(r)} \cup ModuleDirs(r) \cup StatedLayoutFiles(r)

(***************************************************************************)
(* C5 amended.  A run that reaches the end leaves exactly: rio.toml        *)
(* recording the project type and the derived module name, README.md, the  *)
(* module directory with its __init__.py, the assets, components and pages *)
(* directories, both barrel files, one file per asset, component and page  *)
(* snippet and one file in the module directory per other whole-file       *)
(* snippet of the template; requirements.txt exactly when the template has *)
(* dependencies, __main__.py exactly when the project type is "app".       *)
(***************************************************************************)
LayoutFiles(r) ==
    { TomlPath(r), ReadmePath(r), RootInitPath(r), ComponentsInitPath(r), PagesInitPath(r) }
    \cup AssetPaths(r) \cup ComponentPaths(r) \cup PagePaths(r) \cup OtherPaths(r)
    \cup (IF template.dependencies # <<>> THEN {RequirementsPath(r)} ELSE {})
    \cup (IF type = "app" THEN {MainPath(r)} ELSE {})

C5_LayoutWhenDone ==
    \A r \in Runs :
        pc[r] = "done" =>
            /\ Below(fs, project_dir(r)) = {project_dir(r)} \cup ModuleDirs(r) \cup LayoutFiles(r)
            /\ ({project_dir(r)} \cup ModuleDirs(r)) \subseteq fs.dirs
            /\ LayoutFiles(r) \subseteq DOMAIN fs.files
            /\ (RequirementsPath(r) \in DOMAIN fs.files <=> template.dependencies # <<>>)
            /\ (MainPath(r) \in DOMAIN fs.files <=> type = "app")
            /\ fs.files[TomlPath(r)] =
                  << <<"[app]">>,
                     <<"app_type", "=", type>>,
                     <<"main_module", "=">> \o DeriveModuleName(rawName[r]) >>

\* a website from a template with one page, no component, no dependency and one
\* other whole-file snippet
C5_Witness ==
    /\ pc[1] = "done"
    /\ type = "website"
    /\ template.component_snippets = <<>>
    /\ template.dependencies = <<>>
    /\ Len(template.page_snippets) = 1
    /\ OtherPaths(1) # {}
    /\ OtherPaths(1) \subseteq DOMAIN fs.files
    /\ RequirementsPath(1) \notin DOMAIN fs.files
    /\ MainPath(1) \notin DOMAIN fs.files

(***************************************************************************)
(* C10.  The emptiness check is made once, at its statement, and nothing   *)
(* holds the directory afterwards: a run fails with DirectoryNotEmpty only *)
(* at the check and only when the directory holds something, never after   *)
(* it has passed the check, whatever another run has written since.  Two   *)
(* interleaved runs on one directory can therefore both pass the check and *)
(* both write into it (the witness).                                       *)
(***************************************************************************)
C10_CheckedOnceNotHeld ==
    \A r \in Runs :
        /\ err[r] = "DirectoryNotEmpty" =>
              /\ log[r][Len(log[r])] = [op |-> "check", stage |-> "check"]
              /\ \A i \in 1..Len(log[r]) : log[r][i].op # "write"
              /\ HeldEntries(fs, project_dir(r))
        /\ (HasLogged(r, "write", "toml") /\ pc[r] = "failed") =>
              err[r] # "DirectoryNotEmpty"

\* both runs target one directory, both passed the check, both wrote rio.toml
C10_Witness ==
    /\ rawName[1] = rawName[2]
    /\ \A r \in Runs :
          /\ HasLogged(r, "check", "check")
          /\ HasLogged(r, "write", "toml")
          /\ ~HeldEntries(fsAtCall[r], project_dir(r))
    /\ TomlPath(1) \in DOMAIN fs.files

(***************************************************************************)
(* C6.  For every page of a page list, the class named by the root init's  *)
(* build reference is the class the pages barrel imports from the module   *)
(* of the page's stem, and it is the class name of the stem: the stem's    *)
(* underscore-separated parts, each capitalised, joined; sample_component  *)
(* gives SampleComponent.                                                  *)
(***************************************************************************)
\* the class name read off the stem character by character: underscores vanish, a
\* character that starts the stem or follows an underscore is upper-cased, every
\* other one lower-cased
ClassNameOfStem(stem) ==
    Join([k \in 1..Len(stem) |->
        IF stem[k] = "_" THEN <<>>
        ELSE IF k = 1 \/ stem[k - 1] = "_" THEN <<UpperChar(stem[k])>>
        ELSE <<LowerChar(stem[k])>>])

C6_ClassNamesAgree ==
    /\ ClassNameFromSnippet(<<"s","a","m","p","l","e","_","c","o","m","p","o","n","e","n","t",".py">>)
          = <<"S","a","m","p","l","e","C","o","m","p","o","n","e","n","t">>
    /\ fnOut.kind = "generate_root_init" =>
          /\ Len(fnOut.entries) = Len(fnIn.pages)
          /\ Len(fnOut.pages_init) = Len(fnIn.pages)
          /\ \A i \in 1..Len(fnIn.pages) :
                LET stem == SubSeq(fnIn.pages[i].name, 1, Len(fnIn.pages[i].name) - 1)
                IN  /\ fnOut.pages_init[i].module = stem
                    /\ fnOut.entries[i].build = fnOut.pages_init[i].class
                    /\ fnOut.entries[i].build = ClassNameOfStem(stem)

\* a page whose stem has two parts, one of them written in upper case
C6_Witness ==
    /\ fnOut.kind = "generate_root_init"
    /\ fnIn.pages[1].name = <<"a", "_", "B", ".py">>
    /\ fnOut.entries[1].build = <<"A", "B">>
    /\ fnOut.pages_init[1].class = <<"A", "B">>

(***************************************************************************)
(* C7.  The app declaration has one entry per page, in page-list order;    *)
(* the main page's entry has the empty URL segment, every other page's     *)
(* entry its stem with underscores replaced by hyphens, lower-cased; with  *)
(* distinct pages exactly one entry has the empty segment.                 *)
(***************************************************************************)
C7_UrlSegments ==
    fnOut.kind = "generate_root_init" =>
        LET pages == fnIn.pages
            main  == fnIn.main_page_snippet
            entries == fnOut.entries
        IN  /\ Len(entries) = Len(pages)
            /\ \A i \in 1..Len(pages) :
                  LET stem == SubSeq(pages[i].name, 1, Len(pages[i].name) - 1)
                      url  == entries[i].page_url
                  IN  IF pages[i].id = main.id
                      THEN url = <<>>
                      ELSE /\ Len(url) = Len(stem)
                           /\ \A k \in 1..Len(stem) :
                                 /\ (stem[k] = "_" => url[k] = "-")
                                 /\ (stem[k] # "_" => url[k] = LowerChar(stem[k]))
                                 /\ ~IsUpperChar(url[k])
                                 /\ url[k] # "_"
            /\ (\A i, j \in 1..Len(pages) : i # j => pages[i].id # pages[j].id) =>
                  Cardinality({i \in 1..Len(pages) : entries[i].page_url = <<>>}) = 1

\* [main_page, extra_page]: the extra page gets a hyphenated lower-case segment
C7_Witness ==
    /\ fnOut.kind = "generate_root_init"
    /\ Len(fnIn.pages) = 2
    /\ fnIn.main_page_snippet = fnIn.pages[1]
    /\ fnIn.pages[1].id # fnIn.pages[2].id
    /\ fnIn.pages[2].name = <<"a", "_", "B", ".py">>
    /\ fnOut.entries[1].page_url = <<>>
    /\ fnOut.entries[2].page_url = <<"a", "-", "b">>

====
